---- MODULE Spec2Model ----
(***************************************************************************)
(* A model of ocean_data_gateway.gateway.Gateway: the expansion of the     *)
(* keyword configuration into one reader per resolved query specification  *)
(* (Gateway.__init__ and Gateway.sources), the memoized aggregate views    *)
(* (dataset_ids, meta, data) and the quality-control pass (Gateway.qc).    *)
(*                                                                         *)
(* Python values are modelled as records [tag, items, d]:                  *)
(*   None          tag "none"                                              *)
(*   a non-list    tag "atom", items = <<the value>>                       *)
(*   a list        tag "list", items = the entries                         *)
(*   a dict        tag "dict", d = the mapping (a function on its keys)    *)
(* A dict {**a, **b} is b @@ a: the right operand of ** wins a collision.  *)
(***************************************************************************)
EXTENDS Integers, Sequences, FiniteSets, TLC

VARIABLES
    kwargs,        \* the keyword arguments given to Gateway()
    phase,         \* "new" before __init__, then "ready", or "failed" if __init__ raised
    kwargs_all,    \* self.kwargs_all
    _sources,      \* self._sources
    _dataset_ids,  \* self._dataset_ids
    _meta,         \* self._meta
    _data,         \* self._data
    factoryCalls,  \* the calls made to source.region / source.stations, in order
    accCalls,      \* how often the gateway read each reader's accessor
    nextId,        \* identity of the next list object the gateway allocates
    last,          \* the latest operation: its name, outcome, what it returned,
                   \* the readers it read and the reader that raised (0: none)
    everRaised,    \* whether a reader (factory or accessor) raised so far
    qcLog,         \* the stages of the latest qc() call, one log per dataset
    nOps,          \* number of operations performed on the instance
    remote         \* the datasets every source serves (the readers' world)

vars == <<kwargs, phase, kwargs_all, _sources, _dataset_ids, _meta, _data,
          factoryCalls, accCalls, nextId, last, everRaised, qcLog, nOps, remote>>

(***************************************************************************)
(* Bounds of the model.                                                    *)
(***************************************************************************)
MaxList == 2    \* longest user-supplied option / variables / dataset_ids list
MaxOps  == 3    \* operations performed on one gateway instance
MaxCols == 2    \* variables (columns) of one dataset

(***************************************************************************)
(* Python values.                                                          *)
(***************************************************************************)
EmptyDict == << >>
NoneVal == [tag |-> "none", items |-> << >>, d |-> EmptyDict]
Atom(a) == [tag |-> "atom", items |-> <<a>>, d |-> EmptyDict]
List(s) == [tag |-> "list", items |-> s, d |-> EmptyDict]
Dict(f) == [tag |-> "dict", items |-> << >>, d |-> f]

\* the key None, which args_in gets for a source without built-in options
NoneKey == "<None>"

Min(a, b) == IF a <= b THEN a ELSE b

\* [x] if x is not a list, else x: the entries as a sequence of values
AsList(v) ==
    IF v.tag = "list" THEN [i \in 1..Len(v.items) |-> Atom(v.items[i])]
    ELSE <<v>>

(***************************************************************************)
(* Package-level tables of ocean_data_gateway (not part of gateway.py).    *)
(***************************************************************************)
keys_kwargs == {"approach", "parallel", "erddap", "axds", "local", "kw", "readers"}

_SOURCES == <<"erddap", "axds", "local">>

OPTIONS ==
    [erddap |-> [key |-> "known_server", values |-> List(<<"ioos", "coastwatch">>)],
     axds   |-> [key |-> "axds_type",    values |-> List(<<"platform2", "layer_group">>)]]

(***************************************************************************)
(* Gateway.__init__: validation and the general keyword arguments.         *)
(***************************************************************************)
exclude_keys == {"erddap", "axds", "local"}

\* a check that looks at the per-reader keys only
unknown_keys_readers_only(kw) == ((DOMAIN kw) \cap exclude_keys) \ keys_kwargs

unknown_keys(kw) == (DOMAIN kw) \ keys_kwargs

\* kwargs_all after the default for "approach" has been filled in
KwargsAll(kw) ==
    LET general == [k \in (DOMAIN kw) \ exclude_keys |-> kw[k]]
    IN  IF "approach" \in DOMAIN general THEN general
        ELSE ("approach" :> Atom("region")) @@ general

ApproachOk(kwa) == kwa["approach"] \in {Atom("region"), Atom("stations")}

\* the two assertions of __init__, both before self.sources is touched
Valid(kw) == unknown_keys(kw) = {} /\ ApproachOk(KwargsAll(kw))

(***************************************************************************)
(* Gateway.sources: the expansion, per source in SOURCES order.            *)
(***************************************************************************)
\* the readers to use: the user's "readers" (made a list) or the default
SourceList(kwa) ==
    IF "readers" \in DOMAIN kwa
    THEN LET S == AsList(kwa["readers"]) IN [i \in 1..Len(S) |-> S[i].items[1]]
    ELSE _SOURCES

reader_key(name) ==
    IF name \in DOMAIN OPTIONS THEN OPTIONS[name].key ELSE NoneKey

HasKey(kw, name, key) == name \in DOMAIN kw /\ key \in DOMAIN kw[name].d

reader_values(kw, name) ==
    IF name \in DOMAIN OPTIONS
    THEN AsList(IF HasKey(kw, name, OPTIONS[name].key)
                THEN kw[name].d[OPTIONS[name].key]
                ELSE OPTIONS[name].values)
    ELSE <<NoneVal>>

\* a padding of [None] that forgets the length of reader_values
variables_values_unpadded(kw, name) ==
    IF HasKey(kw, name, "variables")
    THEN AsList(kw[name].d["variables"])
    ELSE <<NoneVal>>

variables_values(kw, name) ==
    IF HasKey(kw, name, "variables")
    THEN AsList(kw[name].d["variables"])
    ELSE [i \in 1..Len(reader_values(kw, name)) |-> NoneVal]

dataset_ids_values(kw, name) ==
    IF HasKey(kw, name, "dataset_ids")
    THEN AsList(kw[name].d["dataset_ids"])
    ELSE [i \in 1..Len(reader_values(kw, name)) |-> NoneVal]

\* zip(reader_values, variables_values, dataset_ids_values): stops at the shortest
ZipLen(kw, name) ==
    Min(Len(reader_values(kw, name)),
        Min(Len(variables_values(kw, name)), Len(dataset_ids_values(kw, name))))

\* a merge in which the general arguments win over the reader's own
args_in_general_first(kwa, kw, name, option, variables, dataset_ids) ==
    LET a2 == IF name \in DOMAIN kw THEN kwa @@ kw[name].d ELSE kwa
        a3 == (reader_key(name) :> option) @@ a2
        a4 == ("variables" :> variables) @@ a3
        a5 == ("dataset_ids" :> dataset_ids) @@ a4
    IN  a5

\* the dict handed to the reader factory for one position of the zip
args_in(kwa, kw, name, option, variables, dataset_ids) ==
    LET a1 == kwa
        a2 == IF name \in DOMAIN kw THEN kw[name].d @@ a1 ELSE a1
        a3 == (reader_key(name) :> option) @@ a2
        a4 == ("variables" :> variables) @@ a3
        a5 == ("dataset_ids" :> dataset_ids) @@ a4
    IN  a5

\* which factory is called: source.region or source.stations
EntryPoint(kwa) ==
    IF kwa["approach"] = Atom("region") THEN "region" ELSE "stations"

\* the factory calls for one source, in zip order
SourceCalls(kwa, kw, name) ==
    [i \in 1..ZipLen(kw, name) |->
        [source |-> name,
         entry  |-> EntryPoint(kwa),
         spec   |-> args_in(kwa, kw, name, reader_values(kw, name)[i],
                            variables_values(kw, name)[i],
                            dataset_ids_values(kw, name)[i])]]

RECURSIVE CallsFrom(_, _, _, _)
CallsFrom(kwa, kw, S, i) ==
    IF i > Len(S) THEN << >>
    ELSE SourceCalls(kwa, kw, S[i]) \o CallsFrom(kwa, kw, S, i + 1)

\* every factory call of the loop over SOURCES, in order
AllCalls(kwa, kw) == CallsFrom(kwa, kw, SourceList(kwa), 1)

\* the reader a factory call returns; rid is its position in self._sources
Reader(call, i) ==
    [source |-> call.source, entry |-> call.entry, spec |-> call.spec, rid |-> i]

(***************************************************************************)
(* Datasets.  A dataset is [kind, cols]: kind "df" is a table whose column *)
(* labels are (name, unit), kind "ds" a gridded dataset whose variables    *)
(* carry the attributes standard_name (std) and units; "" is an absent     *)
(* attribute.  val is the variable's value in hundredths of its unit and q *)
(* tells whether it is wrapped as a unit-aware quantity.                   *)
(***************************************************************************)
Col(name, std, unit, val) ==
    [name |-> name, std |-> std, unit |-> unit, val |-> val, q |-> FALSE]

\* the variable catalog odg.var_def, in key order
Generics == <<"salt", "temp">>

var_def ==
    [salt |-> [units |-> "psu", fail_span |-> <<0, 4000>>,
               suspect_span |-> <<200, 3800>>],
     temp |-> [units |-> "degree_Celsius", fail_span |-> <<-1000, 5000>>,
               suspect_span |-> <<-200, 4000>>]]

\* the names each generic name matches (a name with a suffix matches as well)
MatchNames ==
    [salt |-> {"salinity", "sea_water_practical_salinity"},
     temp |-> {"sea_water_temperature"}]

Matches(c, g) == \E n \in MatchNames[g] : c = n \/ c = n \o "_qc"

\* odg.match_var: for every generic name the candidates matching it, in order
match_var(cols, generics) ==
    [k \in 1..Len(generics) |->
        LET Hit(c) == Matches(c, generics[k])
        IN  [key |-> generics[k], v |-> SelectSeq(cols, Hit)]]

RECURSIVE Distinct(_)
Distinct(s) ==
    IF s = << >> THEN << >>
    ELSE LET h == Head(s)
             Other(x) == x # h
         IN  <<h>> \o Distinct(SelectSeq(Tail(s), Other))

\* cols: the candidate names; a table without columns has no element [0].
\* (The pdb.set_trace() that follows hands control to a debugger and changes
\* nothing; the model continues past it.)
ColsRaises(dd) == dd.kind = "df" /\ dd.cols = << >>

Candidates(dd) ==
    IF dd.kind = "df" THEN [i \in 1..Len(dd.cols) |-> dd.cols[i].name]
    ELSE LET Named(c) == c.std # ""
             withStd == SelectSeq(dd.cols, Named)
         IN  Distinct([i \in 1..Len(withStd) |-> withStd[i].std])

\* {k: v[0] for k, v in varnames.items() if v}
KeepMatch(m) == m.v # << >>

Kept(matches) ==
    LET kept == SelectSeq(matches, KeepMatch)
    IN  [i \in 1..Len(kept) |-> [gen |-> kept[i].key, name |-> kept[i].v[1]]]

\* for a Dataset, the first variable carrying the matched standard_name
Resolve(dd, vn) ==
    IF dd.kind = "df" THEN vn
    ELSE [i \in 1..Len(vn) |->
            LET Carries(c) == c.std = vn[i].name
            IN  [gen |-> vn[i].gen, name |-> SelectSeq(dd.cols, Carries)[1].name]]

varnames(dd) == Resolve(dd, Kept(match_var(Candidates(dd), Generics)))

\* dd[list(varnames.values())]
Subset(dd, vn) ==
    [kind |-> dd.kind,
     cols |-> [i \in 1..Len(vn) |->
                 LET Is(c) == c.name = vn[i].name
                 IN  SelectSeq(dd.cols, Is)[1]]]

\* the unit "1e-3" becomes "psu"; every other unit is left alone
RewriteUnit(u) == IF u = "1e-3" THEN "psu" ELSE u

Rewrite(dd) ==
    [dd EXCEPT !.cols = [i \in 1..Len(dd.cols) |->
                            [dd.cols[i] EXCEPT !.unit = RewriteUnit(@)]]]

Quantify(dd) ==
    [dd EXCEPT !.cols = [i \in 1..Len(dd.cols) |-> [dd.cols[i] EXCEPT !.q = TRUE]]]

Dequantify(dd) ==
    [dd EXCEPT !.cols = [i \in 1..Len(dd.cols) |-> [dd.cols[i] EXCEPT !.q = FALSE]]]

\* pint: what a unit measures, and the conversion between units of one dimension
Dimension(u) ==
    CASE u \in {"psu", "1e-3"} -> "salinity"
      [] u \in {"degree_Celsius", "kelvin"} -> "temperature"
      [] OTHER -> u

ToBase(v, u) == IF u = "degree_Celsius" THEN v + 27315 ELSE v
FromBase(v, u) == IF u = "degree_Celsius" THEN v - 27315 ELSE v
PintTo(v, from, to) == FromBase(ToBase(v, from), to)

NeedsConversion(col, gen) == col.unit # var_def[gen].units
ConversionRaises(col, gen) ==
    NeedsConversion(col, gen) /\ Dimension(col.unit) # Dimension(var_def[gen].units)

ConvertCol(col, gen) ==
    IF NeedsConversion(col, gen)
    THEN [col EXCEPT !.val = PintTo(col.val, col.unit, var_def[gen].units),
                     !.unit = var_def[gen].units]
    ELSE col

\* qartod gross_range_test: 4 outside fail_span, 3 outside suspect_span, else 1
GrossRange(v, gen) ==
    LET f == var_def[gen].fail_span
        s == var_def[gen].suspect_span
    IN  IF v < f[1] \/ v > f[2] THEN 4
        ELSE IF v < s[1] \/ v > s[2] THEN 3
        ELSE 1

Ev(stage, var) == [stage |-> stage, var |-> var]

\* the first loop over varnames: conversion to the catalog's units.  st is
\* [status, dd, log]; the loop stops at the first conversion that raises.
ConvertStep(st, col, gen, i) ==
    [st EXCEPT !.dd.cols[i] = ConvertCol(col, gen),
               !.log = IF NeedsConversion(col, gen)
                       THEN Append(@, Ev("convert", col.name)) ELSE @]

ConvertFail(st, col) ==
    [st EXCEPT !.status = "raised", !.log = Append(@, Ev("convert", col.name))]

RECURSIVE ConvertLoop(_, _, _)
ConvertLoop(st, vn, i) ==
    IF i > Len(vn) THEN st
    ELSE IF ConversionRaises(st.dd.cols[i], vn[i].gen)
    THEN ConvertFail(st, st.dd.cols[i])
    ELSE ConvertLoop(ConvertStep(st, st.dd.cols[i], vn[i].gen, i), vn, i + 1)

\* one pass of the second loop over varnames: the range test of a variable,
\* then its flags attached as the field "<variable>_qc"
QartodStep(st, col, gen) ==
    [st EXCEPT !.dd.cols = Append(@, Col(col.name \o "_qc", "", "", GrossRange(col.val, gen))),
               !.log = @ \o <<Ev("range_test", col.name), Ev("attach_qc", col.name)>>]

RECURSIVE QartodLoop(_, _, _)
QartodLoop(st, vn, i) ==
    IF i > Len(vn) THEN st
    ELSE QartodLoop(QartodStep(st, st.dd.cols[i], vn[i].gen), vn, i + 1)

\* dd2 = dd2.pint.dequantify(), between the two loops
Stripped(st) ==
    [st EXCEPT !.dd = Dequantify(@), !.log = Append(@, Ev("dequantify", ""))]

\* subset, unit rewrite and quantify of the matched variables
Quantified(dd, vn) ==
    [status |-> "ok",
     dd     |-> Quantify(Rewrite(Subset(dd, vn))),
     log    |-> <<Ev("match", ""), Ev("subset", ""), Ev("rewrite", ""), Ev("quantify", "")>>]

\* range tests on the quantities, the wrapper stripped only afterwards
Flagged_strip_last(st, vn) ==
    IF st.status = "raised" THEN st ELSE Stripped(QartodLoop(st, vn, 1))

\* what follows the conversion loop, whose outcome is st
Flagged(st, vn) ==
    IF st.status = "raised" THEN st ELSE QartodLoop(Stripped(st), vn, 1)

QcMatched(dd, vn) == Flagged(ConvertLoop(Quantified(dd, vn), vn, 1), vn)

\* the body of qc() for one (dataset_id, dd): [status, dd, log], dd being the
\* value stored back under dataset_id when status is "ok"
QcDataset(dd) ==
    IF ColsRaises(dd) THEN [status |-> "raised", dd |-> dd, log |-> << >>]
    ELSE QcMatched(dd, varnames(dd))

(***************************************************************************)
(* The readers' accessors (external).  What a reader returns is tagged     *)
(* with the reader it came from; `held` are the datasets its source serves.*)
(***************************************************************************)
Views == {"dataset_ids", "meta", "data"}

DatasetId(r, k) == "r" \o ToString(r.rid) \o "_" \o ToString(k)

\* reader.data: a mapping dataset_id -> dataset
ReaderData(r, held) ==
    [from  |-> r.rid,
     items |-> [k \in 1..Len(held) |-> [id |-> DatasetId(r, k), dd |-> held[k]]]]

ReaderDatasetIds(r, held) ==
    [from |-> r.rid, items |-> [k \in 1..Len(held) |-> DatasetId(r, k)]]

ReaderMeta(r, held) ==
    [from |-> r.rid, items |-> [k \in 1..Len(held) |-> DatasetId(r, k)]]

ReaderValue(view, r, held) ==
    CASE view = "dataset_ids" -> ReaderDatasetIds(r, held)
      [] view = "meta" -> ReaderMeta(r, held)
      [] view = "data" -> ReaderData(r, held)

(***************************************************************************)
(* The memoized properties dataset_ids, meta and data.                     *)
(***************************************************************************)
Unset == [set |-> FALSE, id |-> 0, val |-> << >>]

Outcome(op, status, ret, out, calls, fail) ==
    [op |-> op, status |-> status, ret |-> ret, out |-> out, calls |-> calls,
     fail |-> fail]

NoOp == Outcome("", "", 0, << >>, << >>, 0)

UpTo(n) == [i \in 1..n |-> i]

\* a loop that fills the list from the last reader to the first
Collect_reversed(view, srcs, held) ==
    [i \in 1..Len(srcs) |-> ReaderValue(view, srcs[Len(srcs) + 1 - i], held)]

\* `for source in self.sources: out.append(source.<view>)`
Collect(view, srcs, held) ==
    [i \in 1..Len(srcs) |-> ReaderValue(view, srcs[i], held)]

\* accCalls after the accessor `view` of readers 1..n has been read once more
Count(acc, view, n) ==
    [acc EXCEPT ![view] = [i \in DOMAIN @ |-> IF i <= n THEN @[i] + 1 ELSE @[i]]]

\* the attribute exists: it is returned as it is
Cached(view, cache) ==
    [cache |-> cache, acc |-> accCalls, nextId |-> nextId,
     last |-> Outcome(view, "ok", cache.id, cache.val, << >>, 0)]

\* every reader answered: the list is stored in the attribute and returned
Computed(view, val) ==
    [cache |-> [set |-> TRUE, id |-> nextId, val |-> val],
     acc |-> Count(accCalls, view, Len(val)), nextId |-> nextId + 1,
     last |-> Outcome(view, "ok", nextId, val, UpTo(Len(val)), 0)]

\* a failure that leaves the readers read so far in the attribute
Raised_partial(view, cache, failAt) ==
    [cache |-> [set |-> TRUE, id |-> nextId,
                val |-> Collect(view, SubSeq(_sources.val, 1, failAt - 1), remote)],
     acc |-> Count(accCalls, view, failAt), nextId |-> nextId + 1,
     last |-> Outcome(view, "raised", 0, << >>, UpTo(failAt), failAt)]

\* reader failAt raised: the local list is dropped, the attribute is not set
Raised(view, cache, failAt) ==
    [cache |-> cache, acc |-> Count(accCalls, view, failAt), nextId |-> nextId + 1,
     last |-> Outcome(view, "raised", 0, << >>, UpTo(failAt), failAt)]

\* a property without the hasattr test: it reads the readers on every access
Get_uncached(view, cache, failAt, held) ==
    IF failAt = 0 THEN Computed(view, Collect(view, _sources.val, held))
    ELSE Raised(view, cache, failAt)

\* One read of a memoized property whose attribute is `cache`.  failAt is the
\* first reader whose accessor raises (0: none).
Get(view, cache, failAt, held) ==
    IF cache.set THEN Cached(view, cache)
    ELSE IF failAt = 0 THEN Computed(view, Collect(view, _sources.val, held))
    ELSE Raised(view, cache, failAt)

\* the readers that can raise during a read: none once the value is cached
FailChoices(cache) == IF cache.set THEN {0} ELSE 0..Len(_sources.val)

(***************************************************************************)
(* Gateway.qc over self.data.                                              *)
(***************************************************************************)
\* data[dataset_id] = dd2, reached only if the dataset's body did not raise
Stored(st, k, r) ==
    [status |-> r.status,
     items  |-> IF r.status = "ok" THEN [st.items EXCEPT ![k].dd = r.dd] ELSE st.items,
     logs   |-> Append(st.logs, [id |-> st.items[k].id, input |-> st.items[k].dd,
                                 status |-> r.status, log |-> r.log])]

\* `for dataset_id, dd in data.items()`: st is [status, items, logs]
RECURSIVE QcItems(_, _)
QcItems(st, k) ==
    IF k > Len(st.items) \/ st.status = "raised" THEN st
    ELSE QcItems(Stored(st, k, QcDataset(st.items[k].dd)), k + 1)

\* data_out.append(data), the mapping being the one held by self._data
Appended(st, i, r) ==
    [status |-> r.status,
     data   |-> [st.data EXCEPT ![i].items = r.items],
     logs   |-> r.logs]

\* `for data in self.data`: st is [status, data, logs]
RECURSIVE QcReaders(_, _)
QcReaders(st, i) ==
    IF i > Len(st.data) \/ st.status = "raised" THEN st
    ELSE QcReaders(
            Appended(st, i, QcItems([status |-> "ok", items |-> st.data[i].items,
                                     logs |-> st.logs], 1)),
            i + 1)

QcRun(data) == QcReaders([status |-> "ok", data |-> data, logs |-> << >>], 1)

\* qc() once self.data has been read as g and the loops have run as `run`:
\* the datasets are replaced inside the cached mappings, data_out is a new list
QcDone(g, run) ==
    [cache |-> [g.cache EXCEPT !.val = run.data],
     nextId |-> g.nextId + 1,
     logs |-> run.logs,
     last |-> Outcome("qc", run.status, IF run.status = "ok" THEN g.nextId ELSE 0,
                      IF run.status = "ok" THEN run.data ELSE << >>, g.last.calls, 0)]

QcResult(g) ==
    IF g.last.status = "raised"
    THEN [cache |-> g.cache, nextId |-> g.nextId, logs |-> << >>,
          last |-> [g.last EXCEPT !.op = "qc"]]
    ELSE QcDone(g, QcRun(g.cache.val))

(***************************************************************************)
(* The property sources and Gateway.__init__.                              *)
(***************************************************************************)
\* the loop over SOURCES making the factory calls `all`, of which call failAt
\* raises (0: none): [cache, calls, nextId, last]
Build(all, failAt) ==
    IF failAt = 0
    THEN [cache |-> [set |-> TRUE, id |-> nextId,
                     val |-> [i \in 1..Len(all) |-> Reader(all[i], i)]],
          calls |-> all, nextId |-> nextId + 1,
          last |-> Outcome("sources", "ok", nextId, << >>, << >>, 0)]
    ELSE [cache |-> Unset, calls |-> SubSeq(all, 1, failAt), nextId |-> nextId + 1,
          last |-> Outcome("sources", "raised", 0, << >>, << >>, failAt)]

GetSources(cache, kwa, kw, failAt) ==
    IF cache.set
    THEN [cache |-> cache, calls |-> << >>, nextId |-> nextId,
          last |-> Outcome("sources", "ok", cache.id, << >>, << >>, 0)]
    ELSE Build(AllCalls(kwa, kw), failAt)

\* the factory calls that can raise while __init__ runs
FactoryFailChoices ==
    IF Valid(kwargs) THEN 0..Len(AllCalls(KwargsAll(kwargs), kwargs)) ELSE {0}

\* an assertion of __init__ failed
Reject ==
    /\ phase' = "failed"
    /\ last' = Outcome("init", "rejected", 0, << >>, << >>, 0)
    /\ UNCHANGED <<_sources, factoryCalls, accCalls, nextId, everRaised>>

\* `self.sources` at the end of __init__, its outcome being g
Install(g) ==
    /\ _sources' = g.cache
    /\ factoryCalls' = factoryCalls \o g.calls
    /\ nextId' = g.nextId
    /\ everRaised' = (g.last.status = "raised")
    /\ phase' = IF g.last.status = "raised" THEN "failed" ELSE "ready"
    /\ last' = [g.last EXCEPT !.op = "init"]
    /\ accCalls' = [v \in Views |-> [i \in 1..Len(g.cache.val) |-> 0]]

\* Gateway.__init__
Construct(failAt) ==
    /\ phase = "new"
    /\ UNCHANGED <<kwargs, remote, _dataset_ids, _meta, _data, qcLog, nOps>>
    /\ IF unknown_keys(kwargs) # {}
       THEN failAt = 0 /\ kwargs_all' = kwargs_all /\ Reject
       ELSE /\ kwargs_all' = KwargsAll(kwargs)
            /\ IF ~ApproachOk(KwargsAll(kwargs))
               THEN failAt = 0 /\ Reject
               ELSE Install(GetSources(_sources, KwargsAll(kwargs), kwargs, failAt))

\* gateway.sources
sources ==
    /\ phase = "ready"
    /\ nOps < MaxOps
    /\ LET g == GetSources(_sources, kwargs_all, kwargs, 0)
       IN  /\ _sources' = g.cache
           /\ factoryCalls' = factoryCalls \o g.calls
           /\ nextId' = g.nextId
           /\ last' = [g.last EXCEPT !.out = g.cache.val]
    /\ nOps' = nOps + 1
    /\ UNCHANGED <<kwargs, remote, phase, kwargs_all, _dataset_ids, _meta, _data,
                   accCalls, everRaised, qcLog>>

\* gateway.dataset_ids
dataset_ids(failAt) ==
    /\ phase = "ready"
    /\ nOps < MaxOps
    /\ LET g == Get("dataset_ids", _dataset_ids, failAt, remote)
       IN  /\ _dataset_ids' = g.cache
           /\ accCalls' = g.acc
           /\ nextId' = g.nextId
           /\ last' = g.last
           /\ everRaised' = (everRaised \/ g.last.status = "raised")
    /\ nOps' = nOps + 1
    /\ UNCHANGED <<kwargs, remote, phase, kwargs_all, _sources, _meta, _data,
                   factoryCalls, qcLog>>

\* gateway.meta
meta(failAt) ==
    /\ phase = "ready"
    /\ nOps < MaxOps
    /\ LET g == Get("meta", _meta, failAt, remote)
       IN  /\ _meta' = g.cache
           /\ accCalls' = g.acc
           /\ nextId' = g.nextId
           /\ last' = g.last
           /\ everRaised' = (everRaised \/ g.last.status = "raised")
    /\ nOps' = nOps + 1
    /\ UNCHANGED <<kwargs, remote, phase, kwargs_all, _sources, _dataset_ids, _data,
                   factoryCalls, qcLog>>

\* gateway.data
data(failAt) ==
    /\ phase = "ready"
    /\ nOps < MaxOps
    /\ LET g == Get("data", _data, failAt, remote)
       IN  /\ _data' = g.cache
           /\ accCalls' = g.acc
           /\ nextId' = g.nextId
           /\ last' = g.last
           /\ everRaised' = (everRaised \/ g.last.status = "raised")
    /\ nOps' = nOps + 1
    /\ UNCHANGED <<kwargs, remote, phase, kwargs_all, _sources, _dataset_ids, _meta,
                   factoryCalls, qcLog>>

\* gateway.qc()
qc(failAt) ==
    /\ phase = "ready"
    /\ nOps < MaxOps
    /\ LET g == Get("data", _data, failAt, remote)
           r == QcResult(g)
       IN  /\ _data' = r.cache
           /\ accCalls' = g.acc
           /\ nextId' = r.nextId
           /\ last' = r.last
           /\ qcLog' = r.logs
           /\ everRaised' = (everRaised \/ g.last.status = "raised")
    /\ nOps' = nOps + 1
    /\ UNCHANGED <<kwargs, remote, phase, kwargs_all, _sources, _dataset_ids, _meta,
                   factoryCalls>>

(***************************************************************************)
(* Configurations and datasets the model draws its inputs from.            *)
(***************************************************************************)
Opt(key, S) == {EmptyDict} \cup {key :> v : v \in S}

Names(p, n) == [i \in 1..n |-> p \o ToString(i)]
Lists(p, lo) == {List(Names(p, n)) : n \in lo..MaxList}

GeneralKwargs ==
    {a @@ b @@ c @@ e :
        a \in Opt("approach", {Atom("region"), Atom("stations"), Atom("area")}),
        b \in Opt("bogus_key", {Atom("1")}),
        c \in Opt("parallel", {Atom("True")}),
        e \in Opt("readers", {Atom("local"), List(<<"axds", "erddap">>)})}

ErddapKwargs ==
    {Dict(a @@ b @@ c @@ e) :
        a \in Opt("known_server", {Atom("s1")} \cup Lists("s", 0)),
        b \in Opt("variables", {Atom("v1")} \cup Lists("v", 0)),
        c \in Opt("dataset_ids", Lists("d", 1)),
        e \in Opt("parallel", {Atom("False")})}

OtherKwargs ==
    {EmptyDict,
     "axds" :> Dict("axds_type" :> Atom("platform2"))
       @@ "local" :> Dict("filenames" :> Atom("f") @@ "variables" :> List(Names("v", MaxList)))}

AllKwargs ==
    {g @@ a @@ b : g \in GeneralKwargs, a \in Opt("erddap", ErddapKwargs), b \in OtherKwargs}

\* the configurations of the view model: two sources of which one has two
\* built-in options, a single reader, a variables entry shorter than the option
\* list, and two configurations that are rejected
FewKwargs ==
    {"readers" :> List(<<"erddap", "local">>),
     "readers" :> Atom("local") @@ "approach" :> Atom("stations"),
     "erddap" :> Dict("variables" :> Atom("v1")) @@ "readers" :> List(<<"axds", "erddap">>),
     "bogus_key" :> Atom("1"),
     "approach" :> Atom("area")}

ColNames == {"salinity", "sea_water_practical_salinity", "sea_water_temperature", "wind_speed"}

\* a unit with a value in hundredths of it
UnitVals == {<<"psu", 500>>, <<"1e-3", 4100>>, <<"kelvin", 30000>>, <<"m", 500>>}

RECURSIVE SeqsUpTo(_, _)
SeqsUpTo(S, n) ==
    IF n = 0 THEN {<< >>}
    ELSE {<< >>} \cup {<<x>> \o s : x \in S, s \in SeqsUpTo(S, n - 1)}

DistinctNames(cols) ==
    \A i, j \in 1..Len(cols) : cols[i].name = cols[j].name => i = j

\* tables: columns (name, unit) with distinct names
Tables ==
    {[kind |-> "df", cols |-> c] :
        c \in {t \in SeqsUpTo({Col(n, "", uv[1], uv[2]) : n \in ColNames, uv \in UnitVals},
                              MaxCols) : DistinctNames(t)}}

\* variable i of a gridded dataset is called "var<i>"
Named(c) == [i \in 1..Len(c) |-> [c[i] EXCEPT !.name = "var" \o ToString(i)]]

\* gridded datasets: a variable may lack a standard_name
Grids ==
    {[kind |-> "ds", cols |-> Named(c)] :
        c \in SeqsUpTo({Col("", n, uv[1], uv[2]) : n \in ColNames, uv \in UnitVals}
                            \cup {Col("", "", "m", 500)},
                       MaxCols)}

Datasets == Tables \cup Grids

\* what the sources of the view model serve: one table, or a table followed
\* by one whose unit cannot be converted
FewRemotes ==
    {<<[kind |-> "df", cols |-> <<Col("salinity", "", "1e-3", 4100)>>]>>,
     <<[kind |-> "df", cols |-> <<Col("sea_water_temperature", "", "kelvin", 30000)>>],
       [kind |-> "df", cols |-> <<Col("salinity", "", "m", 500)>>]>>}

(***************************************************************************)
(* Specifications.                                                         *)
(***************************************************************************)
\* the state before the Gateway is constructed
Fresh ==
    /\ phase = "new"
    /\ kwargs_all = EmptyDict
    /\ _sources = Unset
    /\ _dataset_ids = Unset
    /\ _meta = Unset
    /\ _data = Unset
    /\ factoryCalls = << >>
    /\ accCalls = [v \in Views |-> << >>]
    /\ nextId = 1
    /\ last = NoOp
    /\ everRaised = FALSE
    /\ qcLog = << >>
    /\ nOps = 0

Init == kwargs \in FewKwargs /\ remote \in FewRemotes /\ Fresh

Next ==
    \/ \E f \in FactoryFailChoices : Construct(f)
    \/ sources
    \/ \E f \in FailChoices(_dataset_ids) : dataset_ids(f)
    \/ \E f \in FailChoices(_meta) : meta(f)
    \/ \E f \in FailChoices(_data) : data(f)
    \/ \E f \in FailChoices(_data) : qc(f)

Spec == Init /\ [][Next]_vars

\* the expansion alone, over every configuration
InitExpand == kwargs \in AllKwargs /\ remote = << >> /\ Fresh

NextExpand == \E f \in FactoryFailChoices : Construct(f)

SpecExpand == InitExpand /\ [][NextExpand]_vars

\* the quality control of every dataset, served by a single reader
InitQC ==
    /\ kwargs = ("readers" :> Atom("local"))
    /\ remote \in {<<d>> : d \in Datasets}
    /\ Fresh

NextQC ==
    \/ Construct(0)
    \/ qc(0)

SpecQC == InitQC /\ [][NextQC]_vars

(***************************************************************************)
(* Properties of the expansion (SpecExpand).                               *)
(***************************************************************************)
\* the readers built for one source, in the order they were built
ReadersOf(name) ==
    LET Is(r) == r.source = name
    IN  SelectSeq(_sources.val, Is)

SourceNames == {SourceList(kwargs_all)[k] : k \in 1..Len(SourceList(kwargs_all))}

Supplied(name, key) == name \in DOMAIN kwargs /\ key \in DOMAIN kwargs[name].d

\* the length of a value once it is coerced to a list
ListLen(v) == IF v.tag = "list" THEN Len(v.items) ELSE 1

\* the length of a source's primary-option list: the user's, else the
\* built-in one, and 1 for a source without built-in options
PrimaryCount(name) ==
    IF name \notin DOMAIN OPTIONS THEN 1
    ELSE IF Supplied(name, OPTIONS[name].key)
    THEN ListLen(kwargs[name].d[OPTIONS[name].key])
    ELSE ListLen(OPTIONS[name].values)

\* C1: for every source and every accepted configuration, the number of
\* readers built for the source equals the length of its primary-option list
\* (1 for a source without built-in options).
ReaderCountIsOptionCount ==
    phase = "ready" =>
        \A name \in SourceNames : Len(ReadersOf(name)) = PrimaryCount(name)

\* entry i of a user-supplied list, None when the user supplied none
EntryOf(name, key, i) ==
    IF Supplied(name, key) THEN AsList(kwargs[name].d[key])[i] ELSE NoneVal

\* a user-supplied list, if any, is as long as the primary-option list
Aligned(name, key) ==
    Supplied(name, key) => ListLen(kwargs[name].d[key]) = PrimaryCount(name)

SameButFor(f, g, key) ==
    DOMAIN f = DOMAIN g /\ \A k \in (DOMAIN f) \ {key} : f[k] = g[k]

\* C2: with variables / dataset_ids lists as long as the primary-option list
\* (or not supplied), reader i of a source gets option i, variables entry i and
\* dataset_ids entry i; with neither supplied there are exactly N specs, both
\* None, differing only in the primary option.
PositionalPairing ==
    phase = "ready" =>
        \A name \in SourceNames :
            Aligned(name, "variables") /\ Aligned(name, "dataset_ids") =>
                /\ Len(ReadersOf(name)) = PrimaryCount(name)
                /\ \A i \in 1..Len(ReadersOf(name)) :
                      /\ ReadersOf(name)[i].spec[reader_key(name)] = reader_values(kwargs, name)[i]
                      /\ ReadersOf(name)[i].spec["variables"] = EntryOf(name, "variables", i)
                      /\ ReadersOf(name)[i].spec["dataset_ids"] = EntryOf(name, "dataset_ids", i)
                      /\ ~Supplied(name, "variables") /\ ~Supplied(name, "dataset_ids") =>
                            SameButFor(ReadersOf(name)[i].spec, ReadersOf(name)[1].spec,
                                       reader_key(name))

\* C2 witness: three readers for erddap, paired with three user variables
PositionalPairingWitness ==
    /\ phase = "ready"
    /\ Supplied("erddap", "variables")
    /\ Supplied("erddap", "known_server")
    /\ ListLen(kwargs["erddap"].d["variables"]) = MaxList
    /\ Len(ReadersOf("erddap")) = MaxList
    /\ ReadersOf("erddap")[MaxList].spec["variables"] = Atom(Names("v", MaxList)[MaxList])

\* a configuration the constructor has to reject
InvalidConfig ==
    \/ \E k \in DOMAIN kwargs : k \notin keys_kwargs
    \/ "approach" \in DOMAIN kwargs
         /\ kwargs["approach"] \notin {Atom("region"), Atom("stations")}

\* C3: an unknown top-level key or an approach other than region / stations
\* makes construction raise before any reader factory is called: no reader is
\* built and no source list is stored.
FailFast ==
    InvalidConfig =>
        /\ phase # "ready"
        /\ factoryCalls = << >>
        /\ _sources = Unset
        /\ phase = "failed" => last.status = "rejected"

\* C3 witness: a construction rejected for an unknown key
FailFastWitness ==
    /\ phase = "failed"
    /\ last.status = "rejected"
    /\ "bogus_key" \in DOMAIN kwargs
    /\ "erddap" \in DOMAIN kwargs

\* the position of reader i among the readers of its source
PositionInSource(i) ==
    Cardinality({j \in 1..i : _sources.val[j].source = _sources.val[i].source})

PerSource(name) == IF name \in DOMAIN kwargs THEN kwargs[name].d ELSE EmptyDict

Positional(name) == {reader_key(name), "variables", "dataset_ids"}

\* C6: every spec holds every key of the general arguments; on a collision
\* the reader's own value wins over the general one; the option, variables
\* and dataset_ids selected for the position win over both and are single
\* entries, never the user's lists.
MergePrecedence ==
    phase = "ready" =>
        \A i \in 1..Len(_sources.val) :
            LET r == _sources.val[i]
                p == PositionInSource(i)
            IN  /\ DOMAIN kwargs_all \subseteq DOMAIN r.spec
                /\ \A k \in (DOMAIN kwargs_all) \ (DOMAIN PerSource(r.source) \cup Positional(r.source)) :
                      r.spec[k] = kwargs_all[k]
                /\ \A k \in (DOMAIN PerSource(r.source)) \ Positional(r.source) :
                      r.spec[k] = PerSource(r.source)[k]
                /\ r.spec[reader_key(r.source)] = reader_values(kwargs, r.source)[p]
                /\ r.spec["variables"] = variables_values(kwargs, r.source)[p]
                /\ r.spec["dataset_ids"] = dataset_ids_values(kwargs, r.source)[p]
                /\ \A k \in Positional(r.source) : r.spec[k].tag # "list"

\* C6 witness: a reader whose own "parallel" collides with the general one
\* and whose variables were given as a list
MergePrecedenceWitness ==
    /\ phase = "ready"
    /\ "parallel" \in DOMAIN kwargs_all
    /\ Supplied("erddap", "parallel")
    /\ Supplied("erddap", "variables")
    /\ kwargs["erddap"].d["variables"].tag = "list"
    /\ Len(ReadersOf("erddap")) >= 2

(***************************************************************************)
(* Properties of the memoized views (Spec).                                *)
(***************************************************************************)
Attr(v) ==
    CASE v = "sources" -> _sources
      [] v = "dataset_ids" -> _dataset_ids
      [] v = "meta" -> _meta
      [] v = "data" -> _data

AttrNext(v) ==
    CASE v = "sources" -> _sources'
      [] v = "dataset_ids" -> _dataset_ids'
      [] v = "meta" -> _meta'
      [] v = "data" -> _data'

\* the property an operation reads: qc() reads data
ViewOf(op) == IF op = "qc" THEN "data" ELSE op

\* every factory call made one reader of sources; while no reader has raised,
\* no accessor was read twice
MemoState ==
    phase = "ready" =>
        /\ Len(factoryCalls) = Len(_sources.val)
        /\ \A i \in 1..Len(factoryCalls) : factoryCalls[i].spec = _sources.val[i].spec
        /\ ~everRaised =>
              \A v \in Views : \A i \in 1..Len(_sources.val) : accCalls[v][i] <= 1

\* a cached list stays the same object, is what every later access returns,
\* and no factory or accessor is called to serve it
MemoStep ==
    /\ \A v \in Views \cup {"sources"} :
          Attr(v).set =>
              /\ AttrNext(v).set /\ AttrNext(v).id = Attr(v).id
              /\ v # "data" => AttrNext(v) = Attr(v)
              /\ ViewOf(last'.op) = v =>
                    /\ last'.calls = << >>
                    /\ accCalls' = accCalls
                    /\ factoryCalls' = factoryCalls
              /\ last'.op = v => last'.ret = Attr(v).id /\ last'.status = "ok"
    /\ \A v \in Views :
          last'.op = v /\ last'.status = "ok" => AttrNext(v).set /\ last'.ret = AttrNext(v).id

\* C4: while no reader raises, each factory is called once per spec and each
\* accessor is read at most once; an access to a view after its first returns
\* the identical cached list and recomputes nothing.
Memoization == []MemoState /\ [][MemoStep]_vars

\* C4 witness: data read twice and qc() run on it, no reader having raised
MemoizationWitness ==
    /\ ~everRaised
    /\ nOps = 3
    /\ last.op = "data"
    /\ last.calls = << >>
    /\ qcLog # << >>
    /\ \A i \in 1..Len(_sources.val) : accCalls["data"][i] = 1
    /\ Len(_sources.val) >= 2

\* a step in which a reader raised, and a step that reads readers
FailureStep ==
    /\ last'.op \in Views \cup {"qc"} /\ last'.fail # 0 =>
          /\ last'.status = "raised"
          /\ last'.calls = UpTo(last'.fail)
          /\ accCalls' = Count(accCalls, ViewOf(last'.op), last'.fail)
          /\ AttrNext(ViewOf(last'.op)) = Unset
          /\ <<_sources, _dataset_ids, _meta, _data>>' = <<_sources, _dataset_ids, _meta, _data>>
    /\ last'.op \in Views \cup {"qc"} /\ last'.calls # << >> =>
          /\ ~Attr(ViewOf(last'.op)).set
          /\ last'.calls = UpTo(Len(last'.calls))

\* C5: a reader raising during dataset_ids, meta or data (also when qc() reads
\* data) ends the access with that error after the readers before it were
\* read once each; the view's attribute stays unset, the other attributes
\* are untouched, and every access that reads readers starts at the first.
ReaderFailure == [][FailureStep]_vars

\* C5 witness: data failed at a later reader for the second time, meta cached
ReaderFailureWitness ==
    /\ last.op = "data"
    /\ last.fail >= 2
    /\ accCalls["data"][1] = 2
    /\ _meta.set
    /\ ~_data.set

SourceIndex(name) ==
    CHOOSE k \in 1..Len(SourceList(kwargs_all)) : SourceList(kwargs_all)[k] = name

FromReaders(list) ==
    /\ Len(list) = Len(_sources.val)
    /\ \A i \in 1..Len(list) : list[i].from = _sources.val[i].rid

\* C7: readers are built in source order and, within a source, in option
\* order; entry i of dataset_ids, meta, data and of the list qc() returns
\* comes from reader i, and each list is as long as sources.
OrderPreserved ==
    phase = "ready" =>
        /\ \A i, j \in 1..Len(_sources.val) :
              /\ i < j => SourceIndex(_sources.val[i].source) <= SourceIndex(_sources.val[j].source)
              /\ i # j => _sources.val[i].rid # _sources.val[j].rid
        /\ \A i \in 1..Len(_sources.val) :
              _sources.val[i].spec[reader_key(_sources.val[i].source)]
                  = reader_values(kwargs, _sources.val[i].source)[PositionInSource(i)]
        /\ \A v \in Views : Attr(v).set => FromReaders(Attr(v).val)
        /\ last.op \in Views \cup {"qc"} /\ last.status = "ok" => FromReaders(last.out)

\* C7 witness: qc() returned a list for several readers, every view cached
OrderPreservedWitness ==
    /\ last.op = "qc"
    /\ last.status = "ok"
    /\ Len(last.out) >= 3
    /\ _dataset_ids.set
    /\ _meta.set

(***************************************************************************)
(* Properties of the quality control (SpecQC).                             *)
(***************************************************************************)
SeqToSet(q) == {q[i] : i \in 1..Len(q)}

\* the candidate names of a dataset matching a generic name
MatchesOf(dd, g) ==
    LET Hit(c) == Matches(c, g)
    IN  SelectSeq(Candidates(dd), Hit)

NoMatch(dd) == \A g \in SeqToSet(Generics) : MatchesOf(dd, g) = << >>

\* the variables of a dataset that carry a candidate name
Carriers(dd, c) ==
    {dd.cols[i].name : i \in {j \in 1..Len(dd.cols) :
        IF dd.kind = "df" THEN dd.cols[j].name = c ELSE dd.cols[j].std = c}}

\* the dataset now stored under a dataset_id
StoredAs(id) ==
    LET holder == CHOOSE i \in 1..Len(_data.val) :
                      \E k \in 1..Len(_data.val[i].items) : _data.val[i].items[k].id = id
        at == CHOOSE k \in 1..Len(_data.val[holder].items) :
                      _data.val[holder].items[k].id = id
    IN  _data.val[holder].items[at].dd

FieldNames(dd) == {dd.cols[i].name : i \in 1..Len(dd.cols)}

HasQcField(dd) == \E n \in FieldNames(dd) : (n \o "_qc") \in FieldNames(dd)

StagesOf(e) == [i \in 1..Len(e.log) |-> e.log[i].stage]

\* C8: qc() does not raise on a dataset none of whose candidate names matches
\* a generic name, runs no range test on it, and what is stored for it has no
\* "<variable>_qc" field.
ZeroMatchPassThrough ==
    \A k \in 1..Len(qcLog) :
        NoMatch(qcLog[k].input) =>
            /\ qcLog[k].status = "ok"
            /\ "range_test" \notin SeqToSet(StagesOf(qcLog[k]))
            /\ ~HasQcField(StoredAs(qcLog[k].id))

\* C9: a generic name whose match has no entry, or two or more, is left out:
\* none of the variables it matched is converted or range-tested or gets a
\* "<variable>_qc" field.
ExactlyOneMatchKept ==
    \A k \in 1..Len(qcLog) : \A g \in SeqToSet(Generics) :
        Len(MatchesOf(qcLog[k].input, g)) # 1 =>
            \A c \in SeqToSet(MatchesOf(qcLog[k].input, g)) :
                \A n \in Carriers(qcLog[k].input, c) :
                    /\ \A i \in 1..Len(qcLog[k].log) : qcLog[k].log[i].var # n
                    /\ qcLog[k].status = "ok" =>
                          (n \o "_qc") \notin FieldNames(StoredAs(qcLog[k].id))

\* the place of a stage in the order RAW, VARIABLE-MATCHED, UNIT-NORMALIZED-
\* INPUT, QUANTIFIED, RANGE-CHECKED, FLAGGED/DEQUANTIFIED
ClaimedRank(stage) ==
    CASE stage = "match" -> 1
      [] stage = "subset" -> 2
      [] stage = "rewrite" -> 3
      [] stage = "quantify" -> 4
      [] stage \in {"convert", "range_test"} -> 5
      [] stage \in {"dequantify", "attach_qc"} -> 6

\* C10 as stated: matching, subsetting, unit rewrite, quantification,
\* conversion plus range test, and only then the stripping of the unit-aware
\* wrapper and the attaching of the "_qc" fields.
StagesAsClaimed ==
    \A k \in 1..Len(qcLog) : \A i, j \in 1..Len(qcLog[k].log) :
        i < j => ClaimedRank(qcLog[k].log[i].stage) <= ClaimedRank(qcLog[k].log[j].stage)

FirstStages == <<"match", "subset", "rewrite", "quantify">>

\* the generic names a dataset is checked for
CheckedCount(dd) ==
    Cardinality({g \in SeqToSet(Generics) : MatchesOf(dd, g) # << >>})

\* the stages of a dataset whose wrapper is stripped at position d
StagesAround(e, d) ==
    /\ StagesOf(e)[d] = "dequantify"
    /\ \A i \in 5..(d - 1) : StagesOf(e)[i] = "convert"
    /\ Len(e.log) = d + 2 * CheckedCount(e.input)
    /\ \A p \in 1..CheckedCount(e.input) :
          /\ e.log[d + 2 * p - 1].stage = "range_test"
          /\ e.log[d + 2 * p].stage = "attach_qc"
          /\ e.log[d + 2 * p].var = e.log[d + 2 * p - 1].var

StagesOfEntry(e) ==
    \/ e.status = "raised" /\ e.log = << >>
    \/ /\ Len(e.log) >= 5
       /\ SubSeq(StagesOf(e), 1, 4) = FirstStages
       /\ IF e.status = "raised"
          THEN \A i \in 5..Len(e.log) : StagesOf(e)[i] = "convert"
          ELSE \E d \in 5..Len(e.log) : StagesAround(e, d)

\* C10 amended: matching, subsetting, unit rewrite, quantification,
\* conversion to the canonical unit, stripping of the unit-aware wrapper, and
\* only then, variable by variable, the range test followed by the attaching
\* of its "_qc" field; no stage is skipped, and the pipeline of a dataset ends
\* at success or at the first error.
StagesInCodeOrder == \A k \in 1..Len(qcLog) : StagesOfEntry(qcLog[k])

\* C10 witness: a dataset with two checked variables, one of them converted
StagesWitness ==
    /\ last.op = "qc"
    /\ last.status = "ok"
    /\ Len(qcLog) = 1
    /\ CheckedCount(qcLog[1].input) = 2
    /\ "convert" \in SeqToSet(StagesOf(qcLog[1]))
    /\ HasQcField(StoredAs(qcLog[1].id))

====
